---- MODULE Spec2Model ----
(***************************************************************************)
(* A model of the Pong game: settings.py (configuration and the mutable    *)
(* mode/difficulty globals), model.py (Model, Player, Circ, MenuState) and *)
(* controller.py (Controller.handle_events and Controller.run).            *)
(*                                                                         *)
(* The ball's position and velocity are Python floats.  They are modelled  *)
(* in fixed point: one unit is 1/Scale pixel, and cos/sin are read from a  *)
(* table of round(Scale * cos(a)) for whole degrees.  Paddle rectangles    *)
(* (pygame.Rect) and ball.step are integers in pixels, as in the code.     *)
(***************************************************************************)
EXTENDS Integers, Sequences, FiniteSets, TLC

(***************************************************************************)
(* settings.py                                                             *)
(***************************************************************************)
SIZE == <<1600, 1200>>
BUTTON_HEIGHT == 100
BUTTON_WIDTH == 300
DIST_BETWEEN_BUTTONS == 50
BUTTON_START_POS_X == SIZE[1] \div 2 - BUTTON_WIDTH - DIST_BETWEEN_BUTTONS
BUTTON_START_POS_Y == SIZE[2] \div 2 - BUTTON_HEIGHT
DIFF_BUTTON_START_POS_X ==
    SIZE[1] \div 2 - BUTTON_WIDTH \div 2 - BUTTON_WIDTH - DIST_BETWEEN_BUTTONS
DIFF_BUTTON_START_POS_Y == SIZE[2] \div 2 - BUTTON_HEIGHT + 200
RECT_SIZE == <<40, 200>>
BALL_RADIUS == 20
PLAYER1_POS == <<0, 0>>
PLAYER2_POS == <<SIZE[1] - RECT_SIZE[1], 0>>
BALL_START_POS == <<SIZE[1] \div 2, SIZE[2] \div 2>>
BALL_STEP == 5
PLAYER_STEP == 10
BALL_SPEED_INCREMENT == 5
WINNING_SCORE == 2
DIFFICULTIES == [easy |-> 5, medium |-> 10, hard |-> 25]

(***************************************************************************)
(* Bounds of the model.                                                    *)
(***************************************************************************)
\* randomize_movement draws only the allowed angles that are multiples of it
AngleStride == 142
\* ticks on which a human holds a movement key, per run
MaxPresses == 1
\* length of the event queue polled on one tick
MaxEvents == 1
\* no tick is taken once ball.step exceeds it
MaxBallStep == 40
\* calls made on one Model in SpecCalls
MaxCalls == 2
\* start_over draws only the allowed angles that are multiples of it in SpecCalls
CallAngleStride == 7

(***************************************************************************)
(* Fixed-point arithmetic for the floats of Circ.                          *)
(***************************************************************************)
Scale == 1000

\* round(Scale * cos(a degrees)) for a = 0..90, at index a + 1
CosTab ==
    << 1000, 1000,  999,  999,  998,  996,  995,  993,  990,  988,
        985,  982,  978,  974,  970,  966,  961,  956,  951,  946,
        940,  934,  927,  921,  914,  906,  899,  891,  883,  875,
        866,  857,  848,  839,  829,  819,  809,  799,  788,  777,
        766,  755,  743,  731,  719,  707,  695,  682,  669,  656,
        643,  629,  616,  602,  588,  574,  559,  545,  530,  515,
        500,  485,  469,  454,  438,  423,  407,  391,  375,  358,
        342,  326,  309,  292,  276,  259,  242,  225,  208,  191,
        174,  156,  139,  122,  105,   87,   70,   52,   35,   17,
          0 >>

Cos(a) ==
    IF a <= 90 THEN CosTab[a + 1]
    ELSE IF a <= 180 THEN -CosTab[180 - a + 1]
    ELSE IF a <= 270 THEN -CosTab[a - 180 + 1]
    ELSE CosTab[360 - a + 1]

Sin(a) ==
    IF a <= 90 THEN CosTab[90 - a + 1]
    ELSE IF a <= 180 THEN CosTab[a - 90 + 1]
    ELSE IF a <= 270 THEN -CosTab[270 - a + 1]
    ELSE -CosTab[a - 270 + 1]

Abs(n) == IF n < 0 THEN -n ELSE n

(***************************************************************************)
(* model.py, class Circ.  A ball is [pos, movement, step]: pos and         *)
(* movement in fixed point, step in pixels; the radius is BALL_RADIUS.     *)
(***************************************************************************)
slope == 20

\* faulty ranges: no band around the vertical is excluded
ranges_full == << <<0, 90>>, <<90, 270>>, <<270, 360>> >>

ranges ==
    << <<0, 90 - slope>>, <<90 + slope, 270 - slope>>, <<270 + slope, 360>> >>

\* every angle choice(ranges) followed by randint can return
AllowedAngles == UNION { ranges[i][1] .. ranges[i][2] : i \in 1..3 }

Circ(pos, step, angle) ==
    [pos |-> <<pos[1] * Scale, pos[2] * Scale>>,
     step |-> step,
     movement |-> <<step * Cos(angle), (-1) * (step * Sin(angle))>>]

\* a faulty randomize_movement: sine and cosine are taken one for the other
randomize_movement_transposed(b, angle) ==
    LET x == b.step * Sin(angle)
        y == b.step * Cos(angle)
    IN  [b EXCEPT !.movement = <<x, (-1) * y>>]

randomize_movement(b, angle) ==
    LET x == b.step * Cos(angle)
        y == b.step * Sin(angle)
    IN  [b EXCEPT !.movement = <<x, (-1) * y>>]

\* a faulty bounce: the two walls' axes are exchanged
bounce_swapped(b, which_wall) ==
    IF which_wall = "vertical"
    THEN [b EXCEPT !.movement = <<b.movement[1], (-1) * b.movement[2]>>]
    ELSE IF which_wall = "horizontal"
    THEN [b EXCEPT !.movement = <<(-1) * b.movement[1], b.movement[2]>>]
    ELSE b

bounce(b, which_wall) ==
    LET b1 == IF which_wall = "vertical"
              THEN [b EXCEPT !.movement = <<(-1) * b.movement[1], b.movement[2]>>]
              ELSE b
    IN  IF which_wall = "horizontal"
        THEN [b1 EXCEPT !.movement = <<b1.movement[1], (-1) * b1.movement[2]>>]
        ELSE b1

get_x_movement(b) == b.movement[1]

get_y_movement(b) == b.movement[2]

move_to_start(b, start_pos) ==
    [b EXCEPT !.pos = <<start_pos[1] * Scale, start_pos[2] * Scale>>]

\* a faulty speed_up: the velocity is rescaled without being normalised first
speed_up_unnormalised(b, increment, up) ==
    LET step == IF up THEN b.step + increment ELSE increment
    IN  [b EXCEPT !.step = step,
                  !.movement = <<b.movement[1] * step, b.movement[2] * step>>]

speed_up(b, increment, up) ==
    LET unit == <<b.movement[1] \div b.step, b.movement[2] \div b.step>>
        step == IF up THEN b.step + increment ELSE increment
    IN  [b EXCEPT !.step = step,
                  !.movement = <<unit[1] * step, unit[2] * step>>]

\* a faulty set_step: the step is added to, not set
set_step_added(b, step) == speed_up(b, step, TRUE)

set_step(b, step) == speed_up(b, step, FALSE)

\* a faulty start_over: the speed is not set back
start_over_keep_step(b, angle) ==
    randomize_movement(move_to_start(b, BALL_START_POS), angle)

start_over(b, angle) ==
    set_step(randomize_movement(move_to_start(b, BALL_START_POS), angle),
             BALL_STEP)

(***************************************************************************)
(* model.py, class Player.  A player is [rect, step, score, auto] with     *)
(* rect = <<x, y, width, height>> as pygame.Rect indexes it.               *)
(***************************************************************************)
Player(starting_pos, rect_size, step, auto, difficulty_step) ==
    [rect |-> <<starting_pos[1], starting_pos[2], rect_size[1], rect_size[2]>>,
     step |-> IF auto THEN difficulty_step ELSE step,
     score |-> 0,
     auto |-> auto]

Top(p) == p.rect[2]

Bottom(p) == p.rect[2] + p.rect[4]

move_down(p) == [p EXCEPT !.rect[2] = @ + p.step]

move_up(p) == [p EXCEPT !.rect[2] = @ - p.step]

\* a faulty prevent_exceed: only the top edge is clamped
prevent_exceed_top_only(p, size) ==
    IF p.rect[2] < 0 THEN [p EXCEPT !.rect[2] = 0] ELSE p

prevent_exceed(p, size) ==
    LET p1 == IF Top(p) < 0 THEN [p EXCEPT !.rect[2] = 0] ELSE p
    IN  IF Bottom(p1) > size[2]
        THEN [p1 EXCEPT !.rect[2] = size[2] - p1.rect[4]]
        ELSE p1

\* a faulty append_score: the score is set to 1 instead of incremented
append_score_set(p) == [p EXCEPT !.score = 1]

append_score(p) == [p EXCEPT !.score = @ + 1]

\* a faulty get_score: one point short
get_score_short(p) == p.score - 1

get_score(p) == p.score

\* a faulty auto_move: the move is not suppressed at the arena bounds
auto_move_unchecked(p, ball_pos, size) ==
    LET ball_within_paddle ==
            /\ p.rect[2] * Scale <= ball_pos[2]
            /\ ball_pos[2] <= (p.rect[2] + p.rect[4]) * Scale
        centre2 == 2 * p.rect[2] + p.rect[4]
    IN  IF p.auto /\ ~ball_within_paddle
        THEN IF 2 * ball_pos[2] < centre2 * Scale
             THEN [p EXCEPT !.rect[2] = @ - p.step]
             ELSE IF 2 * ball_pos[2] > centre2 * Scale
             THEN [p EXCEPT !.rect[2] = @ + p.step]
             ELSE p
        ELSE p

auto_move(p, ball_pos, size) ==
    LET ball_within_paddle ==
            /\ Top(p) * Scale <= ball_pos[2]
            /\ ball_pos[2] <= (Top(p) + p.rect[4]) * Scale
        rect_x1 == Top(p)
        rect_x2 == Top(p) + p.rect[4]
        is_too_low == 2 * ball_pos[2] < (rect_x1 + rect_x2) * Scale
        is_too_high == 2 * ball_pos[2] > (rect_x1 + rect_x2) * Scale
        next_top == Top(p) - p.step
        next_bottom == Top(p) + p.rect[4] + p.step
        not_out_of_bounds_up == next_top >= 0
        not_out_of_bounds_down == next_bottom <= size[2]
    IN  IF p.auto /\ ~ball_within_paddle
        THEN IF is_too_low /\ not_out_of_bounds_up THEN move_up(p)
             ELSE IF is_too_high /\ not_out_of_bounds_down THEN move_down(p)
             ELSE p
        ELSE p

(***************************************************************************)
(* model.py, class Model.  A model is [p1, p2, ball].                      *)
(***************************************************************************)
\* a faulty player1_collision: the vertical span of the paddle is not tested
player1_collision_any_height(ball_obj, player) ==
    ball_obj.pos[1] - BALL_RADIUS * Scale <= player.rect[3] * Scale

player1_collision(ball_obj, player) ==
    LET dimensions == player.rect
        is_within == /\ dimensions[2] * Scale <= ball_obj.pos[2]
                     /\ ball_obj.pos[2] <= (dimensions[2] + dimensions[4]) * Scale
        is_touching == ball_obj.pos[1] - BALL_RADIUS * Scale <= dimensions[3] * Scale
    IN  is_within /\ is_touching

player2_collision(ball_obj, player) ==
    LET dimensions == player.rect
        is_within == /\ dimensions[2] * Scale <= ball_obj.pos[2]
                     /\ ball_obj.pos[2] <= (dimensions[2] + dimensions[4]) * Scale
        is_touching == ball_obj.pos[1] + BALL_RADIUS * Scale >= dimensions[1] * Scale
    IN  is_within /\ is_touching

\* a faulty ball_horizontal_wall_collision: the walls are sensed one paddle
\* step before the ball reaches them
ball_horizontal_wall_collision_wide(ball_obj) ==
    \/ ball_obj.pos[2] - BALL_RADIUS * Scale <= PLAYER_STEP * Scale
    \/ ball_obj.pos[2] + BALL_RADIUS * Scale >= (SIZE[2] - PLAYER_STEP) * Scale

ball_horizontal_wall_collision(ball_obj) ==
    \/ ball_obj.pos[2] - BALL_RADIUS * Scale <= 0
    \/ ball_obj.pos[2] + BALL_RADIUS * Scale >= SIZE[2] * Scale

\* a faulty ball_vertical_wall_collision: a ball that only touches an edge
\* has not left
ball_vertical_wall_collision_open(ball_obj) ==
    IF ball_obj.pos[1] - BALL_RADIUS * Scale < 0 THEN -1
    ELSE IF ball_obj.pos[1] + BALL_RADIUS * Scale > SIZE[1] * Scale THEN 1
    ELSE 0

ball_vertical_wall_collision(ball_obj) ==
    IF ball_obj.pos[1] - BALL_RADIUS * Scale <= 0 THEN -1
    ELSE IF ball_obj.pos[1] + BALL_RADIUS * Scale >= SIZE[1] * Scale THEN 1
    ELSE 0

\* a faulty update_ball_pos: the ball is advanced twice
update_ball_pos_twice(b) ==
    [b EXCEPT !.pos = <<b.pos[1] + 2 * get_x_movement(b),
                        b.pos[2] + 2 * get_y_movement(b)>>]

\* a faulty update_ball_pos: the ball stays where it is
update_ball_pos_still(b) == b

update_ball_pos(b) ==
    [b EXCEPT !.pos = <<b.pos[1] + get_x_movement(b),
                        b.pos[2] + get_y_movement(b)>>]

\* a faulty check_winner: the threshold must be exceeded, not reached
check_winner_strict(m) ==
    IF m.p1.score > WINNING_SCORE THEN "p1"
    ELSE IF m.p2.score > WINNING_SCORE THEN "p2"
    ELSE "None"

\* a faulty check_winner: the players are taken one for the other
check_winner_swapped(m) ==
    IF m.p1.score >= WINNING_SCORE THEN "p2"
    ELSE IF m.p2.score >= WINNING_SCORE THEN "p1"
    ELSE "None"

\* "p1", "p2" or "None"
check_winner(m) ==
    IF get_score(m.p1) >= WINNING_SCORE THEN "p1"
    ELSE IF get_score(m.p2) >= WINNING_SCORE THEN "p2"
    ELSE "None"

\* a faulty update: the paddle tests read the ball's position before the
\* ball is advanced
update_paddles_first(m, angle) ==
    LET p1a == prevent_exceed(m.p1, SIZE)
        p2a == prevent_exceed(m.p2, SIZE)
        hit1 == player1_collision(m.ball, p1a)
        hit2 == player2_collision(m.ball, p2a)
        b1 == update_ball_pos(m.ball)
        hwall == ball_horizontal_wall_collision(b1)
        b2 == IF hwall THEN bounce(b1, "horizontal") ELSE b1
        b3 == IF hit1 \/ hit2
              THEN bounce(speed_up(b2, BALL_SPEED_INCREMENT, TRUE), "vertical")
              ELSE b2
        vertical_collision == ball_vertical_wall_collision(b3)
        p1b == IF vertical_collision = 1 THEN append_score(p1a) ELSE p1a
        p2b == IF vertical_collision = -1 THEN append_score(p2a) ELSE p2a
        winner == IF vertical_collision # 0
                  THEN check_winner([p1 |-> p1b, p2 |-> p2b, ball |-> b3])
                  ELSE "None"
        b4 == IF vertical_collision # 0 /\ winner = "None"
              THEN start_over(b3, angle)
              ELSE b3
    IN  [p1 |-> p1b, p2 |-> p2b, ball |-> b4, ret |-> winner,
         hwall |-> hwall, hit1 |-> hit1, hit2 |-> hit2,
         vertical_collision |-> vertical_collision]

\* One call of Model.update(); angle is what randomize_movement draws if
\* start_over is called (the call draws no angle otherwise).  The result is
\* the model after the call, the value returned (ret: "p1", "p2" or "None")
\* and what the collision tests of the call found.
update(m, angle) ==
    LET p1a == prevent_exceed(m.p1, SIZE)
        p2a == prevent_exceed(m.p2, SIZE)
        b1 == update_ball_pos(m.ball)
        hwall == ball_horizontal_wall_collision(b1)
        b2 == IF hwall THEN bounce(b1, "horizontal") ELSE b1
        hit1 == player1_collision(b2, p1a)
        hit2 == player2_collision(b2, p2a)
        b3 == IF hit1 \/ hit2
              THEN bounce(speed_up(b2, BALL_SPEED_INCREMENT, TRUE), "vertical")
              ELSE b2
        vertical_collision == ball_vertical_wall_collision(b3)
        p1b == IF vertical_collision = 1 THEN append_score(p1a) ELSE p1a
        p2b == IF vertical_collision = -1 THEN append_score(p2a) ELSE p2a
        winner == IF vertical_collision # 0
                  THEN check_winner([p1 |-> p1b, p2 |-> p2b, ball |-> b3])
                  ELSE "None"
        b4 == IF vertical_collision # 0 /\ winner = "None"
              THEN start_over(b3, angle)
              ELSE b3
    IN  [p1 |-> p1b, p2 |-> p2b, ball |-> b4, ret |-> winner,
         hwall |-> hwall, hit1 |-> hit1, hit2 |-> hit2,
         vertical_collision |-> vertical_collision]

\* a faulty update_step: the step of the difficulty, whoever plays paddle 2
update_step_ignores_auto(p2, auto, difficulty) ==
    [p2 EXCEPT !.step = DIFFICULTIES[difficulty]]

update_step(p2, auto, difficulty) ==
    IF auto THEN [p2 EXCEPT !.step = DIFFICULTIES[difficulty]]
    ELSE [p2 EXCEPT !.step = PLAYER_STEP]

(***************************************************************************)
(* model.py, classes MenuState and Button: the five buttons' rectangles.   *)
(***************************************************************************)
ButtonNames == {"single", "multi", "easy", "medium", "hard"}

create_button(is_difficulty, multiplier) ==
    LET distance == BUTTON_WIDTH + DIST_BETWEEN_BUTTONS
        start_pos == IF is_difficulty
                     THEN <<DIFF_BUTTON_START_POS_X + distance * multiplier,
                            DIFF_BUTTON_START_POS_Y>>
                     ELSE <<BUTTON_START_POS_X + distance * multiplier,
                            BUTTON_START_POS_Y>>
    IN  <<start_pos[1], start_pos[2], BUTTON_WIDTH, BUTTON_HEIGHT>>

buttons ==
    [single |-> create_button(FALSE, 0),
     multi  |-> create_button(FALSE, 1),
     easy   |-> create_button(TRUE, 0),
     medium |-> create_button(TRUE, 1),
     hard   |-> create_button(TRUE, 2)]

\* pygame.Rect.collidepoint: the right and bottom edges are outside
collidepoint(rect, pos) ==
    /\ rect[1] <= pos[1] /\ pos[1] < rect[1] + rect[3]
    /\ rect[2] <= pos[2] /\ pos[2] < rect[2] + rect[4]

get_center(rect) == <<rect[1] + rect[3] \div 2, rect[2] + rect[4] \div 2>>

mouse_over_btn(name, mouse_pos) == collidepoint(buttons[name], mouse_pos)

get_hovered_btns(mouse_pos) ==
    [key \in ButtonNames |-> mouse_over_btn(key, mouse_pos)]

\* pointer positions pygame.mouse.get_pos() is drawn from: the centre of each
\* button and a point over none
MousePositions == {get_center(buttons[n]) : n \in ButtonNames} \cup {<<0, 0>>}

(***************************************************************************)
(* The input collaborator: the events pygame.event.get() can return and    *)
(* the keys pygame.key.get_pressed() can report.                           *)
(***************************************************************************)
Events ==
    { [type |-> "QUIT", key |-> "None", button |-> 0],
      [type |-> "KEYDOWN", key |-> "K_ESCAPE", button |-> 0],
      [type |-> "MOUSEBUTTONUP", key |-> "None", button |-> 1] }

EventQueues == UNION { [1..n -> Events] : n \in 0..MaxEvents }

KeySets == { {}, {"K_w"}, {"K_s"}, {"K_w", "K_s"}, {"K_UP"}, {"K_DOWN"} }

(***************************************************************************)
(* State.                                                                  *)
(*   running   Controller.running                                          *)
(*   settings  the module globals of settings.py that the controller       *)
(*             mutates: game_mode_chosen, GAME_MODE, difficulty_chosen,    *)
(*             DIFFICULTY, AUTO                                            *)
(*   model     Model: p1, p2, ball                                         *)
(*   presses   ticks of this run on which a movement key was held          *)
(*   h         what the last step did: the operation (op), what its        *)
(*             event queue held, the buttons the pointer was over, the     *)
(*             calls it made in order, and what                            *)
(*             update() found and returned                                 *)
(***************************************************************************)
VARIABLES running, settings, model, presses, h

vars == <<running, settings, model, presses, h>>

(***************************************************************************)
(* controller.py.  The handlers act on st = [running, settings, model].    *)
(***************************************************************************)
apply_difficulty(st, difficulty) ==
    LET s == [st.settings EXCEPT !.difficulty_chosen = TRUE,
                                 !.DIFFICULTY = difficulty]
    IN  [st EXCEPT !.settings = s,
                   !.model.p2 = update_step(@, s.AUTO, s.DIFFICULTY)]

apply_single_mode(st) ==
    LET s == [st.settings EXCEPT !.game_mode_chosen = TRUE,
                                 !.GAME_MODE = "single",
                                 !.AUTO = TRUE]
    IN  [st EXCEPT !.settings = s,
                   !.model.p2 = update_step([@ EXCEPT !.auto = TRUE],
                                            s.AUTO, s.DIFFICULTY)]

apply_multi_mode(st) ==
    LET s == [st.settings EXCEPT !.game_mode_chosen = TRUE,
                                 !.GAME_MODE = "multiplayer",
                                 !.AUTO = FALSE]
    IN  [st EXCEPT !.settings = s,
                   !.model.p2 = update_step(@, s.AUTO, s.DIFFICULTY)]

\* a faulty body of the loop: a release over "multi" or "single" is
\* applied even when the mode has been chosen
handle_event_rechoose(st, event, buttons_hovered) ==
    LET st1 == IF event.type = "KEYDOWN"
                  /\ (event.type = "QUIT" \/ event.key = "K_ESCAPE")
               THEN [st EXCEPT !.running = FALSE]
               ELSE st
    IN  IF event.type = "MOUSEBUTTONUP" /\ buttons_hovered # <<>>
        THEN IF event.button = 1 /\ buttons_hovered[1]["multi"]
             THEN apply_multi_mode(st1)
             ELSE IF event.button = 1 /\ buttons_hovered[1]["single"]
             THEN apply_single_mode(st1)
             ELSE IF event.button = 1 /\ buttons_hovered[1]["easy"]
             THEN apply_difficulty(st1, "easy")
             ELSE IF event.button = 1 /\ buttons_hovered[1]["medium"]
             THEN apply_difficulty(st1, "medium")
             ELSE IF event.button = 1 /\ buttons_hovered[1]["hard"]
             THEN apply_difficulty(st1, "hard")
             ELSE st1
        ELSE st1

\* the body of the for loop of handle_events, for one event; buttons_hovered
\* is <<>> for None and <<d>> for the dictionary d of get_hovered_btns
handle_event(st, event, buttons_hovered) ==
    LET st1 == IF event.type = "KEYDOWN"
                  /\ (event.type = "QUIT" \/ event.key = "K_ESCAPE")
               THEN [st EXCEPT !.running = FALSE]
               ELSE st
    IN  IF event.type = "MOUSEBUTTONUP" /\ buttons_hovered # <<>>
        THEN IF event.button = 1 /\ buttons_hovered[1]["multi"]
                /\ ~st1.settings.game_mode_chosen
             THEN apply_multi_mode(st1)
             ELSE IF event.button = 1 /\ buttons_hovered[1]["single"]
                     /\ ~st1.settings.game_mode_chosen
             THEN apply_single_mode(st1)
             ELSE IF event.button = 1 /\ buttons_hovered[1]["easy"]
             THEN apply_difficulty(st1, "easy")
             ELSE IF event.button = 1 /\ buttons_hovered[1]["medium"]
             THEN apply_difficulty(st1, "medium")
             ELSE IF event.button = 1 /\ buttons_hovered[1]["hard"]
             THEN apply_difficulty(st1, "hard")
             ELSE st1
        ELSE st1

\* a faulty handle_events: without hover flags a release is handled as if
\* the pointer were over the "easy" button (and only the first event of the
\* queue is handled)
handle_events_hovering(st, events, buttons_hovered) ==
    IF events = <<>> THEN st
    ELSE handle_event(st, Head(events),
                      IF buttons_hovered = <<>>
                      THEN <<[n \in ButtonNames |-> n = "easy"]>>
                      ELSE buttons_hovered)

RECURSIVE handle_events(_, _, _)
handle_events(st, events, buttons_hovered) ==
    IF events = <<>> THEN st
    ELSE handle_events(handle_event(st, Head(events), buttons_hovered),
                       Tail(events), buttons_hovered)

handle_player_movement_input(st, keys) ==
    LET p1a == IF "K_w" \in keys THEN move_up(st.model.p1) ELSE st.model.p1
        p1b == IF "K_s" \in keys THEN move_down(p1a) ELSE p1a
        p2 == st.model.p2
        p2a == IF "K_UP" \in keys THEN move_up(p2) ELSE p2
        p2b == IF "K_DOWN" \in keys THEN move_down(p2a) ELSE p2a
    IN  IF st.settings.GAME_MODE = "multiplayer"
        THEN [st EXCEPT !.model.p1 = p1b, !.model.p2 = p2b]
        ELSE [st EXCEPT !.model.p1 = p1b,
                        !.model.p2 = auto_move(p2, st.model.ball.pos, SIZE)]

(***************************************************************************)
(* The run of a game: main() constructs Model and Controller, run() sets   *)
(* running and iterates the loop.  One action is one iteration.            *)
(***************************************************************************)
\* the angles randomize_movement draws in the runs explored
AngleChoices == { a \in AllowedAngles : a % AngleStride = 0 }

HasQuit(events) == \E i \in 1..Len(events) : events[i].type = "QUIT"

HasEscape(events) ==
    \E i \in 1..Len(events) :
        events[i].type = "KEYDOWN" /\ events[i].key = "K_ESCAPE"

HasRelease(events) ==
    \E i \in 1..Len(events) :
        events[i].type = "MOUSEBUTTONUP" /\ events[i].button = 1

\* the buttons the pointer is over, as get_hovered_btns reports them
Hovered(mouse_pos) == {n \in ButtonNames : get_hovered_btns(mouse_pos)[n]}

\* what h keeps of an event queue: the kinds of event it holds
Polled(events) ==
    [quit |-> HasQuit(events), esc |-> HasEscape(events),
     release |-> HasRelease(events)]

\* the calls one iteration of the loop makes on the model, the view and
\* itself, in the order it makes them: in the two selection branches
\* (render is render_game_mode or render_difficulty), and past them (won:
\* update() returned a winner)
MenuOrder(render) ==
    <<"fill_screen", "get_hovered_btns", "change_color_if_hover", render,
      "handle_events", "flip">>

\* a faulty order past the selection branches: the frame is drawn first
PlayOrder_render_first(won) ==
    <<"fill_screen", "render", "handle_events",
      "handle_player_movement_input", "update">>
    \o (IF won THEN <<"check_winner", "delay">> ELSE <<>>)
    \o <<"tick">>

\* a faulty order past the selection branches: the delay follows every
\* frame, won or not
PlayOrder_delay_always(won) ==
    <<"fill_screen", "handle_events", "handle_player_movement_input", "update">>
    \o (IF won THEN <<"check_winner">> ELSE <<>>)
    \o <<"render", "delay", "tick">>

PlayOrder(won) ==
    <<"fill_screen", "handle_events", "handle_player_movement_input", "update">>
    \o (IF won THEN <<"check_winner">> ELSE <<>>)
    \o <<"render">>
    \o (IF won THEN <<"delay">> ELSE <<>>)
    \o <<"tick">>

NoTick ==
    [op |-> "init", quit |-> FALSE, esc |-> FALSE, release |-> FALSE,
     over |-> {}, order |-> <<>>, ret |-> "None",
     winner |-> "None", delay |-> FALSE, hwall |-> FALSE, hit1 |-> FALSE,
     hit2 |-> FALSE, vertical_collision |-> 0]

St == [running |-> running, settings |-> settings, model |-> model]

\* the state of the loop of run(), as its if/elif chain tests it
LoopState(s) ==
    IF ~s.game_mode_chosen THEN "ModeSelect"
    ELSE IF ~s.difficulty_chosen /\ s.GAME_MODE = "single" THEN "DifficultySelect"
    ELSE "Playing"

Init ==
    /\ running = FALSE
    /\ settings = [game_mode_chosen |-> FALSE, GAME_MODE |-> "single",
                   difficulty_chosen |-> FALSE, DIFFICULTY |-> "hard",
                   AUTO |-> TRUE]
    /\ \E angle \in AngleChoices :
         model = [p1 |-> Player(PLAYER1_POS, RECT_SIZE, PLAYER_STEP, FALSE, 0),
                  p2 |-> Player(PLAYER2_POS, RECT_SIZE, PLAYER_STEP, TRUE,
                                DIFFICULTIES["hard"]),
                  ball |-> Circ(BALL_START_POS, BALL_STEP, angle)]
    /\ presses = 0
    /\ h = NoTick

\* run(), line 127
Start ==
    /\ h.op = "init"
    /\ running' = TRUE
    /\ h' = [NoTick EXCEPT !.op = "run"]
    /\ UNCHANGED <<settings, model, presses>>

\* an iteration that takes the branch "if not settings.game_mode_chosen"
MenuTick ==
    /\ running
    /\ LoopState(settings) = "ModeSelect"
    /\ \E mouse_pos \in MousePositions, events \in EventQueues :
         LET st == handle_events(St, events, <<get_hovered_btns(mouse_pos)>>)
         IN  /\ running' = st.running
             /\ settings' = st.settings
             /\ model' = st.model
             /\ h' = [NoTick EXCEPT !.op = "menu",
                                    !.quit = HasQuit(events),
                                    !.esc = HasEscape(events),
                                    !.release = HasRelease(events),
                                    !.over = Hovered(mouse_pos),
                                    !.order = MenuOrder("render_game_mode")]
    /\ UNCHANGED presses

\* an iteration that takes the branch "elif not settings.difficulty_chosen
\* and settings.GAME_MODE == 'single'"
DifficultyTick ==
    /\ running
    /\ LoopState(settings) = "DifficultySelect"
    /\ \E mouse_pos \in MousePositions, events \in EventQueues :
         LET st == handle_events(St, events, <<get_hovered_btns(mouse_pos)>>)
         IN  /\ running' = st.running
             /\ settings' = st.settings
             /\ model' = st.model
             /\ h' = [NoTick EXCEPT !.op = "difficulty",
                                    !.quit = HasQuit(events),
                                    !.esc = HasEscape(events),
                                    !.release = HasRelease(events),
                                    !.over = Hovered(mouse_pos),
                                    !.order = MenuOrder("render_difficulty")]
    /\ UNCHANGED presses

\* an iteration that reaches "process input": handle_events(),
\* handle_player_movement_input(), update(), render, delay.  (st1 is the
\* state handle_events leaves, polled what the queues that leave it hold.)
PlayTick ==
    /\ running
    /\ LoopState(settings) = "Playing"
    /\ model.ball.step <= MaxBallStep
    /\ \E st1 \in {handle_events(St, events, <<>>) : events \in EventQueues} :
       \E polled \in {{Polled(e) : e \in {q \in EventQueues :
                                           handle_events(St, q, <<>>) = st1}}} :
       \E keys \in KeySets :
         /\ keys # {} => presses < MaxPresses
         /\ presses' = IF keys # {} THEN presses + 1 ELSE presses
         /\ \E st2 \in {handle_player_movement_input(st1, keys)} :
            \E r0 \in {update(st2.model, 0)} :
            \E r \in IF r0.vertical_collision # 0 /\ r0.ret = "None"
                     THEN {update(st2.model, angle) : angle \in AngleChoices}
                     ELSE {r0} :
            \E p \in polled :
              LET won == r.ret # "None"
                  winner == IF won THEN check_winner(r) ELSE "None"
                  running2 == IF won THEN FALSE ELSE st2.running
              IN  /\ running' = running2
                  /\ settings' = st2.settings
                  /\ model' = [p1 |-> r.p1, p2 |-> r.p2, ball |-> r.ball]
                  /\ h' = [op |-> "play",
                           quit |-> p.quit,
                           esc |-> p.esc,
                           release |-> p.release,
                           over |-> {},
                           order |-> PlayOrder(won),
                           ret |-> r.ret,
                           winner |-> winner,
                           delay |-> (running2 = FALSE /\ winner # "None"),
                           hwall |-> r.hwall,
                           hit1 |-> r.hit1,
                           hit2 |-> r.hit2,
                           vertical_collision |-> r.vertical_collision]

Next == Start \/ MenuTick \/ DifficultyTick \/ PlayTick

Spec == Init /\ [][Next]_vars

(***************************************************************************)
(* The loop with its scheduling: while running is true and the selections  *)
(* are made, run() goes on to the next iteration, so an iteration in       *)
(* Playing that can be taken is eventually taken.  (Nothing makes the user *)
(* choose in the selection states.)                                        *)
(***************************************************************************)
SpecLive == Init /\ [][Next]_vars /\ WF_vars(PlayTick)

(***************************************************************************)
(* The same loop, for a game whose first serve is drawn at an angle that   *)
(* brings the ball level with the lower end of paddle 1 as it passes the   *)
(* paddle's face.                                                          *)
(***************************************************************************)
ServeAngles == {152}

InitServe ==
    /\ running = FALSE
    /\ settings = [game_mode_chosen |-> FALSE, GAME_MODE |-> "single",
                   difficulty_chosen |-> FALSE, DIFFICULTY |-> "hard",
                   AUTO |-> TRUE]
    /\ \E angle \in ServeAngles \cap AllowedAngles :
         model = [p1 |-> Player(PLAYER1_POS, RECT_SIZE, PLAYER_STEP, FALSE, 0),
                  p2 |-> Player(PLAYER2_POS, RECT_SIZE, PLAYER_STEP, TRUE,
                                DIFFICULTIES["hard"]),
                  ball |-> Circ(BALL_START_POS, BALL_STEP, angle)]
    /\ presses = 0
    /\ h = NoTick

SpecServe == InitServe /\ [][Next]_vars

(***************************************************************************)
(* The operations of Model, Player and Circ called one at a time, in any   *)
(* order, on a Model in the middle of a single-player game.                *)
(***************************************************************************)
\* balls in play: fresh from the centre, next to either paddle, in the
\* field, and past the top and the bottom wall at speed
CallBalls ==
    { Circ(<<800, 600>>, BALL_STEP, 0),
      Circ(<<25, 600>>, BALL_STEP, 145),
      Circ(<<1575, 500>>, 20, 35),
      Circ(<<400, 300>>, 10, 215),
      Circ(<<800, -10>>, 40, 290),
      Circ(<<800, 1210>>, 40, 70) }

CallTops == {0, 400, SIZE[2] - RECT_SIZE[2]}

CallAngles == { a \in AllowedAngles : a % CallAngleStride = 0 }

\* h after a call: the operation, the object or argument it was called on,
\* the angle drawn (-1: none), what update() returned, and the value before
\* the call of what the call sets (a paddle's top, the ball's step)
Called(op, who, angle, ret, before) ==
    [op |-> op, who |-> who, angle |-> angle, ret |-> ret, before |-> before,
     calls |-> h.calls + 1]

InitCalls ==
    /\ running = TRUE
    /\ \E d \in DOMAIN DIFFICULTIES :
         /\ settings = [game_mode_chosen |-> TRUE, GAME_MODE |-> "single",
                        difficulty_chosen |-> TRUE, DIFFICULTY |-> d,
                        AUTO |-> TRUE]
         /\ \E t1 \in {0, SIZE[2] - RECT_SIZE[2]}, t2 \in CallTops, b \in CallBalls :
              model = [p1 |-> Player(<<PLAYER1_POS[1], t1>>, RECT_SIZE,
                                     PLAYER_STEP, FALSE, 0),
                       p2 |-> Player(<<PLAYER2_POS[1], t2>>, RECT_SIZE,
                                     PLAYER_STEP, TRUE, DIFFICULTIES[d]),
                       ball |-> b]
    /\ presses = 0
    /\ h = [op |-> "init", who |-> "None", angle |-> -1, ret |-> "None",
            before |-> 0, calls |-> 0]

CallMoveUp ==
    /\ h.calls < MaxCalls
    /\ \E who \in {"p1", "p2"} :
         /\ model' = [model EXCEPT ![who] = move_up(@)]
         /\ h' = Called("move_up", who, -1, "None", Top(model[who]))
    /\ UNCHANGED <<running, settings, presses>>

CallMoveDown ==
    /\ h.calls < MaxCalls
    /\ \E who \in {"p1", "p2"} :
         /\ model' = [model EXCEPT ![who] = move_down(@)]
         /\ h' = Called("move_down", who, -1, "None", Top(model[who]))
    /\ UNCHANGED <<running, settings, presses>>

CallPreventExceed ==
    /\ h.calls < MaxCalls
    /\ \E who \in {"p1", "p2"} :
         /\ model' = [model EXCEPT ![who] = prevent_exceed(@, SIZE)]
         /\ h' = Called("prevent_exceed", who, -1, "None", Top(model[who]))
    /\ UNCHANGED <<running, settings, presses>>

\* handle_player_movement_input calls auto_move on paddle 2 only
CallAutoMove ==
    /\ h.calls < MaxCalls
    /\ model' = [model EXCEPT !.p2 = auto_move(@, model.ball.pos, SIZE)]
    /\ h' = Called("auto_move", "p2", -1, "None", Top(model.p2))
    /\ UNCHANGED <<running, settings, presses>>

CallBounce ==
    /\ h.calls < MaxCalls
    /\ \E which_wall \in {"vertical", "horizontal"} :
         /\ model' = [model EXCEPT !.ball = bounce(@, which_wall)]
         /\ h' = Called("bounce", which_wall, -1, "None", model.ball.step)
    /\ UNCHANGED <<running, settings, presses>>

CallSpeedUp ==
    /\ h.calls < MaxCalls
    /\ model.ball.step <= MaxBallStep
    /\ model' = [model EXCEPT !.ball = speed_up(@, BALL_SPEED_INCREMENT, TRUE)]
    /\ h' = Called("speed_up", "ball", -1, "None", model.ball.step)
    /\ UNCHANGED <<running, settings, presses>>

CallStartOver ==
    /\ h.calls < MaxCalls
    /\ \E angle \in CallAngles :
         /\ model' = [model EXCEPT !.ball = start_over(@, angle)]
         /\ h' = Called("start_over", "ball", angle, "None", model.ball.step)
    /\ UNCHANGED <<running, settings, presses>>

CallUpdate ==
    /\ h.calls < MaxCalls
    /\ model.ball.step <= MaxBallStep
    /\ \E angle \in CallAngles :
         \E r \in {update(model, angle)} :
           /\ model' = [p1 |-> r.p1, p2 |-> r.p2, ball |-> r.ball]
           /\ h' = Called("update", "model", -1, r.ret, model.ball.step)
    /\ UNCHANGED <<running, settings, presses>>

NextCalls ==
    \/ CallMoveUp \/ CallMoveDown \/ CallPreventExceed \/ CallAutoMove
    \/ CallBounce \/ CallSpeedUp \/ CallStartOver \/ CallUpdate

SpecCalls == InitCalls /\ [][NextCalls]_vars

(***************************************************************************)
(* Properties.                                                             *)
(***************************************************************************)
Inside(p) == 0 <= Top(p) /\ Bottom(p) <= SIZE[2]

StartPos == <<BALL_START_POS[1] * Scale, BALL_START_POS[2] * Scale>>

\* the ball's position after update_ball_pos, from the state before a tick
Advanced == <<model.ball.pos[1] + model.ball.movement[1],
              model.ball.pos[2] + model.ball.movement[2]>>

LeftExit == Advanced[1] - BALL_RADIUS * Scale <= 0

RightExit == ~LeftExit /\ Advanced[1] + BALL_RADIUS * Scale >= SIZE[1] * Scale

\* the velocity is step times a unit vector: it is a whole multiple of step,
\* and the vector it is a multiple of has length Scale up to the rounding of
\* the cosine table (each component is off by at most 1/2)
MagnitudeIsStep(b) ==
    LET u1 == b.movement[1] \div b.step
        u2 == b.movement[2] \div b.step
    IN  /\ b.movement = <<u1 * b.step, u2 * b.step>>
        /\ Abs(u1 * u1 + u2 * u2 - Scale * Scale) <= 2 * Scale

\* C1: on every tick of update() on which a point is scored, if the scorer
\* thereby reaches WINNING_SCORE update() returns the scorer and the ball
\* stays where update_ball_pos put it; otherwise update() returns None and
\* the ball is back at BALL_START_POS.  On a tick with no left/right exit
\* update() returns None and no score changes.
C1_UpdateReturn ==
    [][h'.op = "play" =>
         LET scorer == IF LeftExit THEN "p2" ELSE "p1"
         IN  IF LeftExit \/ RightExit
             THEN IF model'[scorer].score >= WINNING_SCORE
                  THEN h'.ret = scorer /\ model'.ball.pos = Advanced
                  ELSE h'.ret = "None" /\ model'.ball.pos = StartPos
             ELSE /\ h'.ret = "None"
                  /\ model'.p1.score = model.p1.score
                  /\ model'.p2.score = model.p2.score]_vars

\* a tick on which the winning point was scored: update() returned the
\* winner and the ball lies at the wall, not at the centre
C1_Witness ==
    /\ h.op = "play"
    /\ h.ret \in {"p1", "p2"}
    /\ model[h.ret].score = WINNING_SCORE
    /\ h.vertical_collision # 0
    /\ model.ball.pos # StartPos

\* C2: choosing 'single' in ModeSelect leads to DifficultySelect, choosing
\* 'multi' leads to Playing, and a single-player game enters Playing only
\* from DifficultySelect, for any sequence of pointer releases.
C2_SelectionOrder ==
    [][/\ (LoopState(settings) = "ModeSelect" /\ settings'.game_mode_chosen)
            => LoopState(settings') =
                 (IF settings'.GAME_MODE = "single" THEN "DifficultySelect"
                  ELSE "Playing")
       /\ (LoopState(settings) # "Playing" /\ LoopState(settings') = "Playing"
             /\ settings'.GAME_MODE = "single")
            => LoopState(settings) = "DifficultySelect"
       /\ LoopState(settings') = "Playing" => settings'.game_mode_chosen]_vars

\* C3: a tick whose event queue holds a quit request or an escape key-down
\* clears the running flag, and once the flag is cleared the loop takes no
\* further iteration.
C3_CancelStopsLoop ==
    [][/\ (h'.quit \/ h'.esc) => ~running'
       /\ running \/ h.op = "init"]_vars

\* C4: after prevent_exceed the paddle lies inside the arena vertically,
\* whatever its position before the call; so after update() both paddles do,
\* whatever calls of move_up, move_down and auto_move came before.
C4_PaddlesInside ==
    /\ h.op = "prevent_exceed" => Inside(model[h.who])
    /\ h.op = "update" => Inside(model.p1) /\ Inside(model.p2)

\* a paddle that was above the arena has been put back at its top
C4_Witness ==
    /\ h.op = "prevent_exceed"
    /\ h.before < 0
    /\ Top(model[h.who]) = 0

\* C5, as stated: the ball's velocity always has a non-zero horizontal and a
\* non-zero vertical component.
C5_BothComponentsNonZero ==
    model.ball.movement[1] # 0 /\ model.ball.movement[2] # 0

\* C5, amended: the horizontal component is never trivial: it is at least
\* cos(70 degrees) of the speed, the drawn angles keeping 20 degrees away
\* from the vertical.  (The vertical component can be zero: angle 0 is drawn.)
C5_HorizontalNonTrivial ==
    /\ model.ball.movement[1] # 0
    /\ Abs(model.ball.movement[1]) >= model.ball.step * Cos(70)

\* a paddle has returned a ball that travels with no vertical component
C5_Witness ==
    /\ h.op = "play"
    /\ h.hit2
    /\ model.ball.movement[2] = 0
    /\ model.ball.movement[1] < 0

\* C6: after start_over, from any ball state, the ball is at BALL_START_POS,
\* its step is BALL_STEP, its velocity has magnitude BALL_STEP, and the
\* angle of the velocity is a whole number of degrees in [0,70], [110,250]
\* or [290,360].
C6_StartOver ==
    h.op = "start_over" =>
      /\ model.ball.pos = StartPos
      /\ model.ball.step = BALL_STEP
      /\ MagnitudeIsStep(model.ball)
      /\ h.angle \in (0..70) \cup (110..250) \cup (290..360)
      /\ model.ball.movement =
           <<BALL_STEP * Cos(h.angle), (-1) * (BALL_STEP * Sin(h.angle))>>

\* start_over has reset a ball whose step had grown
C6_Witness ==
    /\ h.op = "start_over"
    /\ h.before > BALL_STEP
    /\ model.ball.step = BALL_STEP
    /\ model.ball.movement[2] # 0

\* C7: a call of auto_move on an AI paddle inside the arena leaves the top
\* where it is when the ball's y is in the closed span of the paddle, and
\* otherwise moves it one step toward the ball's y if the moved paddle stays
\* inside the arena, and not at all if it would not; the paddle stays inside.
C7_AutoMove ==
    [][(h'.op = "auto_move" /\ Inside(model.p2) /\ model.p2.auto) =>
         LET p == model.p2
             y == model.ball.pos[2]
             d == Top(model'.p2) - Top(p)
         IN  /\ d \in {0, -p.step, p.step}
             /\ (Top(p) * Scale <= y /\ y <= Bottom(p) * Scale) => d = 0
             /\ y < Top(p) * Scale =>
                  d = (IF Top(p) - p.step >= 0 THEN -p.step ELSE 0)
             /\ y > Bottom(p) * Scale =>
                  d = (IF Bottom(p) + p.step <= SIZE[2] THEN p.step ELSE 0)
             /\ Inside(model'.p2)
             /\ model'.p2.rect[1] = p.rect[1]]_vars

\* auto_move has moved the paddle one step down, toward a ball below it
C7_Witness ==
    /\ h.op = "auto_move"
    /\ Top(model.p2) = h.before + model.p2.step
    /\ model.ball.pos[2] > Top(model.p2) * Scale

\* C8: on a tick the ball leaves by the left edge exactly player 2's score
\* goes up by one, by the right edge exactly player 1's; on any other tick no
\* score changes; scores never decrease, and never are both at the threshold.
C8_Scoring ==
    [][/\ h'.op = "play" =>
            /\ model'.p1.score = model.p1.score + (IF RightExit THEN 1 ELSE 0)
            /\ model'.p2.score = model.p2.score + (IF LeftExit THEN 1 ELSE 0)
       /\ model'.p1.score >= model.p1.score
       /\ model'.p2.score >= model.p2.score
       /\ ~(model'.p1.score >= WINNING_SCORE /\ model'.p2.score >= WINNING_SCORE)
      ]_vars

\* the ball left by the left edge: player 2 has its first point, player 1
\* keeps the point it had, and the ball is back at the centre
C8_Witness ==
    /\ h.op = "play"
    /\ h.vertical_collision = -1
    /\ model.p2.score = 1
    /\ model.p1.score = 1
    /\ model.ball.pos = StartPos

\* C9: bounce("horizontal") negates the y-component of the velocity and
\* nothing else, bounce("vertical") the x-component and nothing else, and
\* the same bounce applied again gives back the velocity before.
C9_Bounce ==
    [][h'.op = "bounce" =>
         LET m == model.ball.movement
         IN  /\ h'.who = "horizontal" =>
                  model'.ball.movement = <<m[1], (-1) * m[2]>>
             /\ h'.who = "vertical" =>
                  model'.ball.movement = <<(-1) * m[1], m[2]>>
             /\ model'.ball.step = model.ball.step
             /\ model'.ball.pos = model.ball.pos
             /\ bounce(model'.ball, h'.who) = model.ball]_vars

\* a horizontal bounce of a ball that was moving down and to the left
C9_Witness ==
    /\ h.op = "bounce"
    /\ h.who = "horizontal"
    /\ model.ball.movement[2] < 0
    /\ model.ball.movement[1] < 0

\* C10: speed_up(v) with up = True raises ball.step by v, keeps the velocity
\* a multiple of the same unit vector (so its direction is the same and its
\* magnitude is the new step).
C10_SpeedUp ==
    [][h'.op = "speed_up" =>
         LET b == model.ball
             c == model'.ball
         IN  /\ c.step = b.step + BALL_SPEED_INCREMENT
             /\ c.movement[1] * b.step = b.movement[1] * c.step
             /\ c.movement[2] * b.step = b.movement[2] * c.step
             /\ MagnitudeIsStep(c)
             /\ c.pos = b.pos]_vars

\* speed_up has raised the step of a ball moving up and to the right
C10_Witness ==
    /\ h.op = "speed_up"
    /\ model.ball.step = h.before + BALL_SPEED_INCREMENT
    /\ model.ball.movement[1] > 0
    /\ model.ball.movement[2] < 0

\* C11: player1_collision is true exactly when the ball's centre y is in the
\* closed span [top, top + height] of paddle 1 and x - radius has reached
\* the paddle's right edge x + width; player2_collision exactly when the
\* centre y is in the span of paddle 2 and x + radius has reached the
\* paddle's left edge.  Both are tested on the advanced ball and the clamped
\* paddles of the tick.
C11_PaddleCollision ==
    [][h'.op = "play" =>
         LET x == Advanced[1]
             y == Advanced[2]
             r1 == model'.p1.rect
             r2 == model'.p2.rect
         IN  /\ h'.hit1 = (/\ r1[2] * Scale <= y
                           /\ y <= (r1[2] + r1[4]) * Scale
                           /\ x - BALL_RADIUS * Scale <= (r1[1] + r1[3]) * Scale)
             /\ h'.hit2 = (/\ r2[2] * Scale <= y
                           /\ y <= (r2[2] + r2[4]) * Scale
                           /\ x + BALL_RADIUS * Scale >= r2[1] * Scale)]_vars

\* paddle 1, at the left edge, has returned a ball that reached its face
C11_Witness ==
    /\ h.op = "play"
    /\ h.hit1 /\ ~h.hit2
    /\ h.vertical_collision = 0
    /\ model.p1.rect[1] = 0
    /\ model.ball.pos[1] - BALL_RADIUS * Scale <= RECT_SIZE[1] * Scale
    /\ model.ball.movement[1] > 0

\* C12: ball_vertical_wall_collision is -1 iff x - radius <= 0, else 1 iff
\* x + radius >= the arena's width, else 0: a ball that exactly touches an
\* edge has left by it, and the left test comes first.
C12_VerticalWall ==
    [][h'.op = "play" =>
         h'.vertical_collision =
           (IF Advanced[1] - BALL_RADIUS * Scale <= 0 THEN -1
            ELSE IF Advanced[1] + BALL_RADIUS * Scale >= SIZE[1] * Scale THEN 1
            ELSE 0)]_vars

\* the winning point was scored by a ball that exactly touches the right
\* edge (the ball is left where it was)
C12_Witness ==
    /\ h.op = "play"
    /\ h.vertical_collision = 1
    /\ h.ret = "p1"
    /\ model.ball.pos[1] + BALL_RADIUS * Scale = SIZE[1] * Scale

\* C13: no iteration follows one whose update() returned a winner; on that
\* iteration running is cleared and the winner shown is the one player whose
\* score has reached WINNING_SCORE.
C13_FinishedTerminal ==
    [][/\ h.ret = "None"
       /\ h'.ret # "None" =>
            /\ ~running'
            /\ h'.winner = h'.ret
            /\ h'.delay
            /\ model'[h'.winner].score = WINNING_SCORE
            /\ \A q \in {"p1", "p2"} \ {h'.winner} :
                 model'[q].score < WINNING_SCORE]_vars

\* player 2 has won: the loop has stopped and shows player 2
C13_Witness ==
    /\ h.op = "play"
    /\ h.ret = "p2"
    /\ h.winner = "p2"
    /\ ~running
    /\ model.p2.score = WINNING_SCORE

\* C14: one contact of the ball with a paddle gives one speed increment and
\* one reversal: after a tick that detected a collision with a paddle the
\* ball travels away from that paddle, and the following tick detects no
\* collision with the same paddle.
C14_OneSpeedUpPerHit ==
    [][/\ (h'.op = "play" /\ h'.hit1 /\ h'.vertical_collision = 0)
            => model'.ball.movement[1] > 0
       /\ (h'.op = "play" /\ h'.hit2 /\ h'.vertical_collision = 0)
            => model'.ball.movement[1] < 0
       /\ (h.op = "play" /\ h.hit1 /\ h'.op = "play") => ~h'.hit1
       /\ (h.op = "play" /\ h.hit2 /\ h'.op = "play") => ~h'.hit2]_vars

\* C15, as stated: on every tick ball.step goes up by BALL_SPEED_INCREMENT
\* iff a paddle collision is detected on the tick, is set back to BALL_STEP
\* when a non-winning point is scored, and is left alone otherwise.
C15_SpeedChanges ==
    [][h'.op = "play" =>
         LET hit == h'.hit1 \/ h'.hit2
             reset == h'.vertical_collision # 0 /\ h'.ret = "None"
         IN  /\ hit <=> model'.ball.step = model.ball.step + BALL_SPEED_INCREMENT
             /\ reset => model'.ball.step = BALL_STEP
             /\ (~hit /\ ~reset) => model'.ball.step = model.ball.step]_vars

\* C15, amended: on a tick that scores a non-winning point ball.step is set
\* back to BALL_STEP, a paddle collision on the same tick notwithstanding;
\* on any other tick it goes up by BALL_SPEED_INCREMENT if a paddle
\* collision is detected and is unchanged if none is, a bounce off the top
\* or bottom wall making no difference.  So ball.step is BALL_STEP plus a
\* whole number of increments.
C15_SpeedChangesOrReset ==
    [][/\ h'.op = "play" =>
            LET hit == h'.hit1 \/ h'.hit2
                reset == h'.vertical_collision # 0 /\ h'.ret = "None"
            IN  model'.ball.step =
                  (IF reset THEN BALL_STEP
                   ELSE IF hit THEN model.ball.step + BALL_SPEED_INCREMENT
                   ELSE model.ball.step)
       /\ model'.ball.step >= BALL_STEP
       /\ (model'.ball.step - BALL_STEP) % BALL_SPEED_INCREMENT = 0]_vars

\* a tick on which a paddle collision was detected and a non-winning point
\* was scored: the ball is back at the centre at its initial speed
C15_Witness ==
    /\ h.op = "play"
    /\ h.hit1 \/ h.hit2
    /\ h.vertical_collision # 0
    /\ h.ret = "None"
    /\ model.ball.step = BALL_STEP
    /\ model.ball.pos = StartPos

\* the ball that a tick leaves when it does not reset it: advanced once,
\* turned back by a top or bottom wall, then sped up and turned back by a
\* paddle, a paddle being hit when the advanced ball is in its span and has
\* reached its face (p1, p2: the paddles after the clamp)
Advance(b, p1, p2) ==
    LET pos == <<b.pos[1] + b.movement[1], b.pos[2] + b.movement[2]>>
        hwall == \/ pos[2] - BALL_RADIUS * Scale <= 0
                 \/ pos[2] + BALL_RADIUS * Scale >= SIZE[2] * Scale
        within(p) == p.rect[2] * Scale <= pos[2]
                     /\ pos[2] <= (p.rect[2] + p.rect[4]) * Scale
        hit == \/ within(p1) /\ pos[1] - BALL_RADIUS * Scale <= RECT_SIZE[1] * Scale
               \/ within(p2) /\ pos[1] + BALL_RADIUS * Scale >= p2.rect[1] * Scale
        my == IF hwall THEN (-1) * b.movement[2] ELSE b.movement[2]
        faster == b.step + BALL_SPEED_INCREMENT
    IN  [hwall |-> hwall, hit |-> hit,
         ball |-> IF hit
                  THEN [pos |-> pos, step |-> faster,
                        movement |-> <<(-1) * ((b.movement[1] \div b.step) * faster),
                                       (my \div b.step) * faster>>]
                  ELSE [pos |-> pos, step |-> b.step,
                        movement |-> <<b.movement[1], my>>]]

\* C16: update() clamps both paddles, advances the ball once, then tests the
\* top/bottom walls, the paddles and the left/right walls, in that order and
\* all on the advanced position; when the advanced ball is in a paddle's
\* span and has also reached the arena edge of that side, the bounce and the
\* speed-up are applied and the opponent still gets the point on that tick.
C16_UpdateOrder ==
    [][h'.op = "play" =>
         LET a == Advance(model.ball, model'.p1, model'.p2)
             exit == LeftExit \/ RightExit
         IN  /\ Inside(model'.p1) /\ Inside(model'.p2)
             /\ h'.hwall = a.hwall
             /\ (h'.hit1 \/ h'.hit2) = a.hit
             /\ (h'.vertical_collision # 0) = exit
             /\ (~exit \/ h'.ret # "None") => model'.ball = a.ball
             /\ (exit /\ a.hit) =>
                  /\ model'.p1.score + model'.p2.score
                       = model.p1.score + model.p2.score + 1
                  /\ RightExit => model'.p1.score = model.p1.score + 1
                  /\ LeftExit => model'.p2.score = model.p2.score + 1]_vars

\* paddle 2 has returned the ball on the tick the ball reached the right
\* edge: the ball has been sped up and turned back, and player 1 has won
C16_Witness ==
    /\ h.op = "play"
    /\ h.hit2
    /\ h.vertical_collision = 1
    /\ h.ret = "p1"
    /\ model.ball.movement[1] < 0
    /\ model.ball.step > BALL_STEP
    /\ model.p1.score = WINNING_SCORE

\* C17: while the loop is in Playing, paddle 2's step is DIFFICULTIES[d] for
\* the difficulty d recorded in a single-player game and PLAYER_STEP in a
\* multiplayer game, in whatever order the selections were made; in a
\* multiplayer game paddle 2 moves only by the keys (auto_move is not
\* called): it stays where it is on a tick on which no key is held.
C17_Paddle2Step ==
    [][/\ LoopState(settings') = "Playing" =>
            model'.p2.step = (IF settings'.GAME_MODE = "single"
                              THEN DIFFICULTIES[settings'.DIFFICULTY]
                              ELSE PLAYER_STEP)
       /\ (h'.op = "play" /\ settings.GAME_MODE = "multiplayer") =>
            /\ Top(model'.p2) - Top(model.p2) \in {0, PLAYER_STEP, -PLAYER_STEP}
            /\ presses' = presses => model'.p2.rect = model.p2.rect]_vars

\* a multiplayer game chosen after a release over the "easy" button: paddle
\* 2 has the players' step and has stayed at the top, away from the ball
C17_Witness ==
    /\ h.op = "play"
    /\ settings.GAME_MODE = "multiplayer"
    /\ settings.difficulty_chosen
    /\ settings.DIFFICULTY = "easy"
    /\ model.p2.step = PLAYER_STEP
    /\ model.p2.auto
    /\ model.ball.pos[2] > Bottom(model.p2) * Scale

\* the calls of an iteration that poll input and that draw or show a frame
InputCalls == {"handle_events", "handle_player_movement_input"}

RenderCalls == {"render_game_mode", "render_difficulty", "render", "flip"}

\* in the calls of the last iteration, every call of A comes before every
\* call of B
Before(A, B) ==
    \A i, j \in DOMAIN h.order :
        (h.order[i] \in A /\ h.order[j] \in B) => i < j

C19_MenuFrame ==
    [][/\ h'.op \in {"menu", "difficulty"} =>
            /\ model'.ball = model.ball
            /\ model'.p1.rect = model.p1.rect
            /\ model'.p2.rect = model.p2.rect
            /\ model'.p1.score = model.p1.score
            /\ model'.p2.score = model.p2.score
            /\ \A i \in DOMAIN h'.order :
                 h'.order[i] \notin {"update", "handle_player_movement_input"}
       /\ h'.op = "play" =>
            /\ Cardinality({i \in DOMAIN h'.order : h'.order[i] = "update"}) = 1
            /\ \/ model'.ball.pos = Advanced
               \/ /\ LeftExit \/ RightExit
                  /\ h'.ret = "None"
                  /\ model'.ball.pos = StartPos]_vars

\* a tick in ModeSelect whose release chose the multiplayer game: paddle 2
\* has its new step, and the ball and the paddles are where they started
C19_Witness ==
    /\ h.op = "menu"
    /\ h.release
    /\ settings.game_mode_chosen
    /\ settings.GAME_MODE = "multiplayer"
    /\ model.p2.step = PLAYER_STEP
    /\ model.ball.pos = StartPos
    /\ Top(model.p1) = PLAYER1_POS[2] /\ Top(model.p2) = PLAYER2_POS[2]

\* C20: from a state of the loop in Playing no step changes the recorded
\* mode, the recorded difficulty, the two flags or paddle 2's step, whatever
\* releases the tick polls.
C20_SelectionsFrozen ==
    [][LoopState(settings) = "Playing" =>
         /\ settings'.GAME_MODE = settings.GAME_MODE
         /\ settings'.DIFFICULTY = settings.DIFFICULTY
         /\ settings'.game_mode_chosen = settings.game_mode_chosen
         /\ settings'.difficulty_chosen = settings.difficulty_chosen
         /\ settings'.AUTO = settings.AUTO
         /\ model'.p2.step = model.p2.step]_vars

\* a tick in Playing that polled a release, in a single-player game on
\* "medium": the selections stand
C20_Witness ==
    /\ h.op = "play"
    /\ h.release
    /\ settings.GAME_MODE = "single"
    /\ settings.DIFFICULTY = "medium"
    /\ model.p2.step = DIFFICULTIES["medium"]

C22_ScoreBounds ==
    LET s1 == model.p1.score
        s2 == model.p2.score
    IN  /\ s1 \in 0..WINNING_SCORE /\ s2 \in 0..WINNING_SCORE
        /\ s1 + s2 <= 2 * WINNING_SCORE - 1
        /\ running => (s1 < WINNING_SCORE /\ s2 < WINNING_SCORE)
        /\ (h.ret # "None") <=> (s1 = WINNING_SCORE \/ s2 = WINNING_SCORE)
        /\ (h.ret # "None") => ~running

\* a run that ended 2 to 1: the most points a run can have
C22_Witness ==
    /\ h.op = "play"
    /\ h.ret = "p1"
    /\ ~running
    /\ model.p1.score = WINNING_SCORE
    /\ model.p2.score = WINNING_SCORE - 1

AnglesClearOfVertical ==
    \A a \in AllowedAngles : Abs(a - 90) >= slope /\ Abs(a - 270) >= slope

\* C24: the horizontal component of the ball's velocity is never zero: every
\* angle randomize_movement can draw is at least 20 degrees away from 90 and
\* from 270, bounce only negates the component and speed_up only rescales
\* it, so every update() moves the ball horizontally.
C24_HorizontalProgress ==
    [][/\ AnglesClearOfVertical
       /\ model.ball.movement[1] # 0
       /\ model'.ball.movement[1] # 0
       /\ h'.op = "start_over" =>
            Abs(model'.ball.movement[1]) >= model'.ball.step * Cos(90 - slope)
       /\ h'.op = "bounce" =>
            Abs(model'.ball.movement[1]) = Abs(model.ball.movement[1])
       /\ h'.op = "speed_up" =>
            /\ model'.ball.movement[1] * model.ball.movement[1] > 0
            /\ Abs(model'.ball.movement[1]) > Abs(model.ball.movement[1])
       /\ h'.op = "update" => model'.ball.pos[1] # model.ball.pos[1]]_vars

\* start_over drew 70 degrees, the steepest angle of its range: the ball
\* still travels to the right
C24_Witness ==
    /\ h.op = "start_over"
    /\ h.angle = 90 - slope
    /\ model.ball.movement[1] > 0
    /\ model.ball.movement[1] < (-1) * model.ball.movement[2]

\* C25: the ball never escapes through the top or bottom wall: within a
\* rally a top/bottom wall collision is never detected on two consecutive
\* ticks, and the ball's extent never lies beyond a wall by one tick's
\* vertical movement or more.
C25_Overshoot ==
    /\ model.ball.pos[2] - BALL_RADIUS * Scale > (-1) * Abs(model.ball.movement[2])
    /\ model.ball.pos[2] + BALL_RADIUS * Scale
         < SIZE[2] * Scale + Abs(model.ball.movement[2])
    /\ (h.op = "play" /\ h.hwall /\ h.vertical_collision = 0) =>
         \/ /\ model.ball.pos[2] - BALL_RADIUS * Scale <= 0
            /\ model.ball.movement[2] > 0
         \/ /\ model.ball.pos[2] + BALL_RADIUS * Scale >= SIZE[2] * Scale
            /\ model.ball.movement[2] < 0

C25_NoWallEscape ==
    /\ []C25_Overshoot
    /\ [][(h.op = "play" /\ h.hwall /\ h.vertical_collision = 0 /\ h'.op = "play")
            => ~h'.hwall]_vars

\* the tick after a bounce off the top wall: the ball is strictly inside
\* again and still moving down
C25_Witness ==
    /\ h.op = "play"
    /\ ~h.hwall
    /\ model.ball.movement[2] > 0
    /\ model.ball.pos[2] - BALL_RADIUS * Scale > 0
    /\ model.ball.pos[2] - BALL_RADIUS * Scale <= model.ball.movement[2]

\* C26: the victory indication and the post-victory delay happen on a tick
\* if and only if update() returned a winner on that tick; a tick that ends
\* the loop through cancellation, an escape key-down in a Playing tick
\* included, still runs update() and shows no winner and applies no delay
\* unless that same update() produced a winner.
C26_VictoryOnlyOnWin ==
    /\ h.delay <=> h.ret # "None"
    /\ h.winner # "None" <=> h.ret # "None"
    /\ h.winner # "None" => h.winner = h.ret
    /\ (\E i \in 1..Len(h.order) : h.order[i] = "delay") <=> h.ret # "None"
    /\ (\E i \in 1..Len(h.order) : h.order[i] = "check_winner") <=> h.ret # "None"
    /\ h.op # "play" => h.ret = "None"
    /\ (h.op = "play" /\ h.esc) =>
         /\ ~running
         /\ \E i \in 1..Len(h.order) : h.order[i] = "update"
    /\ (~running /\ h.ret = "None") => (~h.delay /\ h.winner = "None")

\* an escape key-down during play: update() moved the ball, the loop ended
\* with no winner and no delay
C26_Witness ==
    /\ h.op = "play"
    /\ h.esc
    /\ ~running
    /\ h.ret = "None"
    /\ ~h.delay
    /\ h.winner = "None"
    /\ model.ball.pos # StartPos

====
